---- MODULE Spec2Model ----
(***************************************************************************)
(* A model of the sin/cos/1-cos accuracy tester of numericcompfricas:      *)
(* the kernel sncs1cs, the ULP distance ud, the scoring and aggregation of *)
(* main (src/fricas/commonNumericFunctions.spad) and the FriCAS session    *)
(* (src/cfricas/cfricas.h, src/go/fricas/fricas.go).                       *)
(*                                                                         *)
(* Floating-point numbers are bit patterns of a binary interchange format  *)
(* with ExpBits exponent bits and MantBits fraction bits (the program uses *)
(* binary64: 11 and 52); int64/uint64 have the width of that format, as in *)
(* the program, and int has IntBits bits.                                  *)
(***************************************************************************)
EXTENDS Integers, Sequences, FiniteSets, TLC

\* ------------------------------------------------------------------ bounds
\* The floating-point format and the width of int, scaled down from binary64
\* and 32 bits.
ExpBits == 4
MantBits == 3
IntBits == 8
\* The points of one range (32 in the program) and the spacing of the ranges'
\* first points (0.03125 in the program, which makes 837 ranges).
PointsInOneRange == 2
StepInt == 16
\* The environment: on how many evaluations libm's sin or cos differs from the
\* kernel's in one run.
MaxDiverge == 2
\* The FriCAS session: the longest output FriCAS leaves on the channel before
\* it ends, and the number of evaluations of a Go client.
MaxChan == 7
MaxEvals == 2

\* ------------------------------------------------------- program constants
FuncLimit == 3
FloatFricasLinesToSkipAtStartup == 17

\* ------------------------------------------------------- the number formats
W == 1 + ExpBits + MantBits
TwoW == 2^W
SignMask == 2^(W - 1)
MantOne == 2^MantBits
ExpMax == 2^ExpBits - 1
Bias == 2^(ExpBits - 1) - 1
Floats == 0..(TwoW - 1)

SignOf(b) == b \div SignMask
Mag(b) == b % SignMask
ExpOf(b) == Mag(b) \div MantOne
MantOf(b) == b % MantOne
InfMag == ExpMax * MantOne
PosInf == InfMag
PosZero == 0
NegZero == SignMask
IsNaN(b) == Mag(b) > InfMag
IsInf(b) == Mag(b) = InfMag
IsZero(b) == Mag(b) = 0
IsFinite(b) == Mag(b) < InfMag
\* The quiet NaN an invalid operation (0/0, inf - inf) produces.
DefaultNaN == InfMag + (MantOne \div 2)

\* uint64 arithmetic wraps; (int64)u reinterprets the bits.
U64(n) == n % TwoW
ToInt64(u) == IF u >= SignMask THEN u - TwoW ELSE u
Int64Max == SignMask - 1
Int64Min == -SignMask

\* ------------------------------------------------- floating-point arithmetic
\* IEEE 754 round-to-nearest-even arithmetic on the bit patterns, as the
\* hardware performs it for mfloat_t.
EMin == 1 - Bias
MinExp2 == EMin - MantBits
FNeg(b) == (b + SignMask) % TwoW
FAbs(b) == Mag(b)
Pack(sign, mag) == sign * SignMask + mag
\* A finite b is SigOf(b) * 2^Exp2Of(b), negated when SignOf(b) = 1.
SigOf(b) == IF ExpOf(b) = 0 THEN MantOf(b) ELSE MantOne + MantOf(b)
Exp2Of(b) == IF ExpOf(b) = 0 THEN MinExp2 ELSE ExpOf(b) - Bias - MantBits
BitLen(n) == CHOOSE k \in 0..30 : (k = 0 \/ 2^(k - 1) <= n) /\ n < 2^k
Max(a, b) == IF a >= b THEN a ELSE b
Min(a, b) == IF a <= b THEN a ELSE b

\* The format's nearest value (ties to even) to (sig + s) * 2^exp2, where
\* 0 <= s < 1 and s > 0 exactly when sticky; overflow rounds to infinity.
\* RoundShift drops the low shift bits of sig; e is the result's exponent.
RoundShift(sig, shift, sticky) ==
  IF shift <= 0 THEN sig * 2^(-shift)
  ELSE IF shift > 30 THEN 0
  ELSE IF sig < 2^(shift - 1) THEN 0
  ELSE IF sig % 2^shift > 2^(shift - 1) THEN sig \div 2^shift + 1
  ELSE IF sig % 2^shift = 2^(shift - 1) /\ (sticky \/ (sig \div 2^shift) % 2 = 1)
       THEN sig \div 2^shift + 1
  ELSE sig \div 2^shift
RoundMag(sign, mag) == Pack(sign, IF mag >= InfMag THEN InfMag ELSE mag)
RoundExp(sign, sig, exp2, sticky, e) ==
  RoundMag(sign, (e + Bias - 1) * MantOne + RoundShift(sig, (e - MantBits) - exp2, sticky))
RoundPack(sign, sig, exp2, sticky) ==
  IF sig = 0 THEN Pack(sign, 0)
  ELSE RoundExp(sign, sig, exp2, sticky, Max(exp2 + BitLen(sig) - 1, EMin))

\* A decimal literal of the source, given as its binary expansion cut after
\* some bits (sig * 2^exp2, the rest sticky) and rounded to the format.
Literal(sign, sig, exp2) == RoundPack(sign, sig, exp2, TRUE)

FMul(a, b) ==
  IF IsNaN(a) THEN a
  ELSE IF IsNaN(b) THEN b
  ELSE IF IsInf(a) \/ IsInf(b)
       THEN IF IsZero(a) \/ IsZero(b) THEN DefaultNaN
            ELSE Pack((SignOf(a) + SignOf(b)) % 2, InfMag)
  ELSE IF IsZero(a) \/ IsZero(b) THEN Pack((SignOf(a) + SignOf(b)) % 2, 0)
  ELSE RoundPack((SignOf(a) + SignOf(b)) % 2, SigOf(a) * SigOf(b), Exp2Of(a) + Exp2Of(b), FALSE)

\* The sum of the integers va and vb, times 2^e.
AddSigs(va, vb, e) ==
  IF va + vb = 0 THEN PosZero
  ELSE IF va + vb < 0 THEN RoundPack(1, -(va + vb), e, FALSE)
  ELSE RoundPack(0, va + vb, e, FALSE)
SignedSig(b) == IF SignOf(b) = 1 THEN -SigOf(b) ELSE SigOf(b)

FAdd(a, b) ==
  IF IsNaN(a) THEN a
  ELSE IF IsNaN(b) THEN b
  ELSE IF IsInf(a) THEN (IF IsInf(b) /\ SignOf(a) # SignOf(b) THEN DefaultNaN ELSE a)
  ELSE IF IsInf(b) THEN b
  ELSE IF IsZero(a) /\ IsZero(b)
       THEN (IF SignOf(a) = 1 /\ SignOf(b) = 1 THEN NegZero ELSE PosZero)
  ELSE IF IsZero(a) THEN b
  ELSE IF IsZero(b) THEN a
  ELSE IF Exp2Of(a) - Exp2Of(b) > MantBits + 2 THEN a
  ELSE IF Exp2Of(b) - Exp2Of(a) > MantBits + 2 THEN b
  ELSE IF Exp2Of(a) >= Exp2Of(b)
       THEN AddSigs(SignedSig(a) * 2^(Exp2Of(a) - Exp2Of(b)), SignedSig(b), Exp2Of(b))
       ELSE AddSigs(SignedSig(a), SignedSig(b) * 2^(Exp2Of(b) - Exp2Of(a)), Exp2Of(a))

FSub(a, b) == IF IsNaN(b) THEN FAdd(a, b) ELSE FAdd(a, FNeg(b))

DivBits == 2 * MantBits + 4

FDiv(a, b) ==
  IF IsNaN(a) THEN a
  ELSE IF IsNaN(b) THEN b
  ELSE IF IsInf(a)
       THEN (IF IsInf(b) THEN DefaultNaN ELSE Pack((SignOf(a) + SignOf(b)) % 2, InfMag))
  ELSE IF IsInf(b) THEN Pack((SignOf(a) + SignOf(b)) % 2, 0)
  ELSE IF IsZero(b)
       THEN (IF IsZero(a) THEN DefaultNaN ELSE Pack((SignOf(a) + SignOf(b)) % 2, InfMag))
  ELSE IF IsZero(a) THEN Pack((SignOf(a) + SignOf(b)) % 2, 0)
  ELSE RoundPack((SignOf(a) + SignOf(b)) % 2, (SigOf(a) * 2^DivBits) \div SigOf(b),
                 Exp2Of(a) - Exp2Of(b) - DivBits, (SigOf(a) * 2^DivBits) % SigOf(b) # 0)

\* sqrt: the root of sig * 2^exp2 with exp2 made even, to SqrtBits more bits.
SqrtBits == 2 * MantBits + 6
\* The integer square root, bit by bit from the top.
RECURSIVE ISqrtFrom(_, _, _)
ISqrtFrom(n, r, b) ==
  IF b < 0 THEN r
  ELSE IF (r + 2^b) * (r + 2^b) <= n THEN ISqrtFrom(n, r + 2^b, b - 1)
  ELSE ISqrtFrom(n, r, b - 1)
ISqrt(n) == ISqrtFrom(n, 0, 14)

SqrtOf(n, exp2) == RoundPack(0, ISqrt(n), exp2, ISqrt(n) * ISqrt(n) # n)
FSqrt(a) ==
  IF IsNaN(a) THEN a
  ELSE IF IsZero(a) THEN a
  ELSE IF SignOf(a) = 1 THEN DefaultNaN
  ELSE IF IsInf(a) THEN a
  ELSE SqrtOf(SigOf(a) * 2^(SqrtBits + (Exp2Of(a) % 2)),
              (Exp2Of(a) - (Exp2Of(a) % 2) - SqrtBits) \div 2)

\* The comparisons of C: false when an operand is NaN; -0 equals +0.
Key(b) == IF SignOf(b) = 1 THEN -Mag(b) ELSE Mag(b)
FEq(a, b) == ~IsNaN(a) /\ ~IsNaN(b) /\ Key(a) = Key(b)
FLess(a, b) == ~IsNaN(a) /\ ~IsNaN(b) /\ Key(a) < Key(b)

\* (mfloat_t)n of an integer n.
IntToFloat(n) == IF n < 0 THEN RoundPack(1, -n, 0, FALSE) ELSE RoundPack(0, n, 0, FALSE)

\* The integer part of a finite b (the value a conversion to an integer type
\* truncates to).
TruncMag(b) ==
  IF Exp2Of(b) >= 0 THEN SigOf(b) * 2^Exp2Of(b)
  ELSE IF -Exp2Of(b) > 30 THEN 0
  ELSE SigOf(b) \div 2^(-Exp2Of(b))
Trunc(b) == IF SignOf(b) = 1 THEN -TruncMag(b) ELSE TruncMag(b)

\* nextafter(x, posInf)
NextAfterUp(b) ==
  IF IsNaN(b) THEN b
  ELSE IF b = PosInf THEN b
  ELSE IF IsZero(b) THEN 1
  ELSE IF SignOf(b) = 0 THEN b + 1
  ELSE b - 1

\* copysign(a, b)
CopySign(a, b) == Pack(SignOf(b), Mag(a))

One == Pack(0, Bias * MantOne)
Half == Pack(0, (Bias - 1) * MantOne)

\* ---------------------------------------------------------------------- ud
\* interesting that takes every distance for a difference.
interesting_always(d) == TRUE

interesting(d) == d # 0

\* ud with the absolute value of the same-sign branch left out.
ud_signed(x, y) ==
  IF IsNaN(x) \/ IsNaN(y) THEN Int64Max
  ELSE IF SignOf(x) = SignOf(y) THEN ToInt64(U64(x - y))
  ELSE ToInt64(U64(x - SignMask + y))

\* ud without the NaN check of lines 256-258.
ud_nonan(x, y) ==
  IF SignOf(x) = SignOf(y)
  THEN (IF U64(x - y) >= SignMask THEN ToInt64(U64(-U64(x - y))) ELSE ToInt64(U64(x - y)))
  ELSE ToInt64(U64(x - SignMask + y))

ud(x, y) ==
  IF IsNaN(x) \/ IsNaN(y) THEN Int64Max
  ELSE LET a == x
           b == y
       IN IF SignOf(a) = SignOf(b)
          THEN LET a2 == U64(a - b)
               IN IF a2 >= SignMask THEN ToInt64(U64(-a2)) ELSE ToInt64(a2)
          ELSE ToInt64(U64(a - SignMask + b))

\* ----------------------------------------------------------------- sncs1cs
IntMax == 2^(IntBits - 1) - 1
IntMin == -(2^(IntBits - 1))

\* Converting a value outside the range of mint_t, or incrementing IntMax,
\* is undefined in C.  A build settles each with one machine instruction, a
\* function of its operand alone; which function is the build's choice.
UBChoices == [cast : {IntMin, IntMax, 0}, inc : {IntMin, IntMax}]

\* (mint_t)f
CastInt(f, ub) ==
  IF IsFinite(f) /\ Trunc(f) >= IntMin /\ Trunc(f) <= IntMax THEN Trunc(f)
  ELSE ub.cast

\* j += 1
IncInt(j, ub) == IF j = IntMax THEN ub.inc ELSE j + 1

fourOverPi == Literal(0, 10680707, -23)  \* 1.27323954473516268615
DP1 == Literal(0, 13176793, -24)         \* 7.85398125648498535156E-1
DP2 == Literal(0, 10625384, -48)         \* 3.77489470793079817668E-8
DP3 == Literal(0, 12727492, -72)         \* 2.69515142907905952645E-15
sc ==
  << Literal(0, 11454440, -56),          \*  1.58962301576546568060E-10
     Literal(1, 14102317, -49),          \* -2.50507477628578072866E-8
     Literal(0, 12119834, -42),          \*  2.75573136213857245213E-6
     Literal(1, 13634816, -36),          \* -1.98412698295895385996E-4
     Literal(0, 8947848, -30),           \*  8.33333333332211858878E-3
     Literal(1, 11184810, -26) >>        \* -1.66666666666666307295E-1
cc ==
  << Literal(1, 13095501, -60),          \* -1.13585365213876817300E-11
     Literal(0, 9401579, -52),           \*  2.08757008419747316778E-9
     Literal(1, 9695867, -45),           \* -2.75573141792967388112E-7
     Literal(0, 13634816, -39),          \*  2.48015872888517045348E-5
     Literal(1, 11930464, -33),          \* -1.38888888888730564116E-3
     Literal(0, 11184810, -28) >>        \*  4.16666666666665929218E-2

\* ((((c[1]*zz + c[2])*zz + c[3])*zz + c[4])*zz + c[5])*zz + c[6]
Poly(c, zz) ==
  LET p2 == FAdd(FMul(c[1], zz), c[2])
      p3 == FAdd(FMul(p2, zz), c[3])
      p4 == FAdd(FMul(p3, zz), c[4])
      p5 == FAdd(FMul(p4, zz), c[5])
  IN FAdd(FMul(p5, zz), c[6])

\* The body of sncs1cs from "map zeros to origin" on, for a finite nonzero
\* input: sign0 is sign, ax is x, j0 is j, all after lines 135-139.  Each
\* later value of the C locals is a parameter of the next step.
sncs1csSign(sign, r) == IF sign < 0 THEN [r EXCEPT !.sin = FNeg(@)] ELSE r
sncs1csResult(sign, csign, j, s0, o0) ==
  sncs1csSign(sign,
    IF j = 1 \/ j = 2
    THEN IF csign < 0
         THEN [sin |-> FSub(One, o0), cos |-> FNeg(s0), omc |-> FSub(One, FNeg(s0))]
         ELSE [sin |-> FSub(One, o0), cos |-> s0, omc |-> FSub(One, s0)]
    ELSE IF csign < 0
         THEN [sin |-> s0, cos |-> FSub(o0, One), omc |-> FSub(One, FSub(o0, One))]
         ELSE [sin |-> s0, cos |-> FSub(One, o0), omc |-> o0])

sncs1csSeries(sign, csign, j, z, zz) ==
  sncs1csResult(sign, csign, j,
    \* z  +  z * z * z * (...)
    FAdd(z, FMul(FMul(zz, z), Poly(sc, zz))),
    \* 0.5*zz - zz * zz * (...)
    FSub(FMul(Half, zz), FMul(FMul(zz, zz), Poly(cc, zz))))

sncs1csSquare(sign, csign, j, z) == sncs1csSeries(sign, csign, j, z, FMul(z, z))

\* Extended precision modular arithmetic
sncs1csReduce(sign, csign, j, ax, y) ==
  sncs1csSquare(sign, csign, j,
    FSub(FSub(FSub(ax, FMul(y, DP1)), FMul(y, DP2)), FMul(y, DP3)))

sncs1csOctant(sign0, ax, j0, ub) ==
  LET \* map zeros to origin
      odd == j0 % 2 = 1
      j1 == IF odd THEN IncInt(j0, ub) ELSE j0
      \* octant modulo one turn
      j2 == j1 % 8
      \* reflect in x axis
      sign == IF j2 > 3 THEN -sign0 ELSE sign0
      csign1 == IF j2 > 3 THEN -1 ELSE 1
      j3 == IF j2 > 3 THEN j2 - 4 ELSE j2
      csign == IF j3 > 1 THEN -csign1 ELSE csign1
  IN sncs1csReduce(sign, csign, j3, ax,
       IF odd THEN FAdd(IntToFloat(j0), One) ELSE IntToFloat(j0))

\* sncs1cs with the input's sign not saved (sign stays 1 for x < 0).
sncs1cs_nosign(x, ub) ==
  IF FEq(x, PosZero) THEN [sin |-> x, cos |-> One, omc |-> PosZero]
  ELSE IF IsNaN(x) THEN [sin |-> x, cos |-> x, omc |-> x]
  ELSE IF IsInf(x) THEN [sin |-> FSub(x, x), cos |-> FSub(x, x), omc |-> FSub(x, x)]
  ELSE sncs1csOctant(1, FAbs(x), CastInt(FMul(FAbs(x), fourOverPi), ub), ub)

sncs1cs(x, ub) ==
  \* Handle +-0.
  IF FEq(x, PosZero) THEN [sin |-> x, cos |-> One, omc |-> PosZero]
  ELSE IF IsNaN(x) THEN [sin |-> x, cos |-> x, omc |-> x]
  ELSE IF IsInf(x) THEN [sin |-> FSub(x, x), cos |-> FSub(x, x), omc |-> FSub(x, x)]
  \* lines 135-139: sign, x = -x, j
  ELSE sncs1csOctant(IF FLess(x, PosZero) THEN -1 ELSE 1, FAbs(x),
                     CastInt(FMul(FAbs(x), fourOverPi), ub), ub)

\* ------------------------------------------------------- the sample points
sinIndex == 0
cosIndex == 1
omcIndex == 2
Funcs == 0..(FuncLimit - 1)
Points == 0..(PointsInOneRange - 1)

fourPi == Literal(0, 13176794, -20)  \* 12.5663706143591729539
step == IntToFloat(StepInt)
\* 2*(int)((fourPi + 0.5)/step + 0.5) + 1
size == 2 * Trunc(FAdd(FDiv(FAdd(fourPi, Half), step), Half)) + 1
Ranges == 0..(size - 1)
\* -fourPi + step*data.i
RangeStart(i) == FAdd(FNeg(fourPi), FMul(step, IntToFloat(i)))

\* ----------------------------------------------------------- the environment
\* libm's sin and cos and FriCAS are not part of the program.  libm's result
\* is drawn d floating-point steps from the kernel's, d in LibmUlps or 0; the
\* value FriCAS computes lies truthOff steps from the kernel's.
LibmUlps == {-2, 1}
TruthOffsets == {0, 1}
FromKey(k) == IF k < 0 THEN Pack(1, -k) ELSE Pack(0, k)
UlpShift(v, d) == IF d = 0 THEN v ELSE FromKey(Key(v) + d)

\* FricasFloatEval's result: the number FriCAS printed, or NaN (0/0) once the
\* channel has ended.
OracleNaN == DefaultNaN

\* ------------------------------------------------------------------ scoring
\* int64 subtraction as the machine performs it.
Sub64(a, b) == ToInt64(U64(a - b))

Lthreshold == Literal(0, 14073748, -47)  \* 1e-7

\* The verdict of a diagnostic line, or "nil".
quiteInteresting(v) ==
  LET ac == ud(v.old, v.accurate)
      bc == ud(v.new, v.accurate)
  IN IF FLess(Lthreshold, FDiv(IntToFloat(Sub64(ac, bc)), IntToFloat(bc))) THEN "better"
     ELSE IF FLess(Lthreshold, FDiv(IntToFloat(Sub64(bc, ac)), IntToFloat(ac))) THEN "worse "
     ELSE "nil"

\* 0xfff0000000000000: the sign and exponent bits.
SignExpOf(b) == b \div MantOne

about(old, new) ==
  IF SignExpOf(old) # SignExpOf(new)
  THEN [text |-> "Exponents or signs differ !", bits |-> 0]
  ELSE LET d0 == ToInt64(U64(old - new))
           d == IF d0 < 0 THEN -d0 ELSE d0
       IN [text |-> "Mantissas differ in %2d bits", bits |-> IF d = 0 THEN 1 ELSE BitLen(d)]

\* scoresOf's iscor: ac - bc.
iscorOf(v) == Sub64(ud(v.old, v.accurate), ud(v.new, v.accurate))

scoresOf(v) ==
  [iscor |-> iscorOf(v),
   fscor |-> FDiv(IntToFloat(iscorOf(v)), IntToFloat(ud(v.new, v.accurate)))]

isNull(v) == FEq(v.old, v.new)

ZeroVal == [old |-> PosZero, new |-> PosZero, accurate |-> PosZero]

\* calloc'ed reports.
ZeroMicro == [count |-> 0, max |-> 0, maxScor |-> PosZero, mean2 |-> PosZero]
ZeroReport ==
  [limits |-> <<PosZero, PosZero>>, improvements |-> ZeroMicro,
   worsenings |-> ZeroMicro, mean1 |-> PosZero]

\* updateMicroReport keeping the last score as max instead of the greatest.
updateMicroReport_last(r, iS, fS) ==
  [count |-> r.count + 1,
   mean2 |-> FAdd(r.mean2, FMul(fS, fS)),
   max |-> iS,
   maxScor |-> IF FLess(CopySign(r.maxScor, One), CopySign(fS, One)) THEN fS ELSE r.maxScor]

updateMicroReport(r, iS, fS) ==
  [count |-> r.count + 1,
   mean2 |-> FAdd(r.mean2, FMul(fS, fS)),
   max |-> IF (0 <= iS /\ r.max < iS) \/ (iS <= 0 /\ iS <= r.max) THEN iS ELSE r.max,
   maxScor |-> IF FLess(CopySign(r.maxScor, One), CopySign(fS, One)) THEN fS ELSE r.maxScor]

\* --------------------------------------------------- checkSinCosOmcInPoint
\* sncs1cs(x), tabulated.  At the sample points the cast to int and j += 1
\* stay in range, so the choice of out-of-range outcome does not matter.
sncs1csAt == [x \in Floats |-> sncs1cs(x, [cast |-> IntMin, inc |-> IntMin])]

\* A second call of FricasFloatEval when the first one gave NaN.
FricasCalls_retry(accurate) == IF IsNaN(accurate) THEN 2 ELSE 1

\* How often FricasFloatEval is called for a function whose results differ.
FricasCalls(accurate) == 1

\* Lines 344-349: the local array a.  libm's sin(x) and cos(x) lie dS and dC
\* floating-point steps from the kernel's.
funcValsAt(sc1c, dS, dC) ==
  [i \in Funcs |->
     IF i = sinIndex
     THEN [old |-> UlpShift(sc1c.sin, dS), new |-> sc1c.sin, accurate |-> PosZero]
     ELSE IF i = cosIndex
     THEN [old |-> UlpShift(sc1c.cos, dC), new |-> sc1c.cos, accurate |-> PosZero]
     ELSE [old |-> FSub(One, UlpShift(sc1c.cos, dC)), new |-> sc1c.omc, accurate |-> PosZero]]

\* Lines 359-364, with funcData[i] = v already filled in and s the verdict.
checkPrint(i, x, st, diff, v, s) ==
  [st EXCEPT
     !.row[i] = v,
     !.lines = IF s # "nil"
               THEN Append(@, [s |-> s, x |-> x, func |-> i, buf |-> about(v.old, v.new),
                               diff |-> diff, old |-> v.old, new |-> v.new,
                               accurate |-> v.accurate])
               ELSE @]

\* Line 358: FriCAS answers with the value off steps from the kernel's, or
\* the channel ends at this call (the dieAt-th of this point) or has ended
\* before, and the answer is NaN.
checkEval(i, x, off, dieAt, st, diff, v) ==
  checkPrint(i, x,
    [st EXCEPT !.calls = @ + 1,
               !.evals[i] = FricasCalls(v.accurate),
               !.alive = @ /\ dieAt # st.calls + 1],
    diff, v, quiteInteresting(v))

\* Lines 355-357.
checkDiff(i, x, off, dieAt, st, diff, ai) ==
  IF interesting(diff)
  THEN checkEval(i, x, off, dieAt, st, diff,
         [ai EXCEPT !.accurate = IF st.alive /\ dieAt # st.calls + 1
                                 THEN UlpShift(ai.new, off) ELSE OracleNaN])
  ELSE st

\* The loop of lines 353-366.
RECURSIVE checkLoop(_, _, _, _, _, _)
checkLoop(a, i, x, off, dieAt, st) ==
  IF i = FuncLimit THEN st
  ELSE checkLoop(a, i + 1, x, off, dieAt,
         checkDiff(i, x, off, dieAt, st, ud(a[i].old, a[i].new), a[i]))

\* One call for point x, a being the local array of lines 344-349.  In the
\* result, a is that array, row the
\* point's funcData afterwards, calls and evals the calls of FricasFloatEval
\* (of the point, per function), lines what was printed.  dieAt is the call
\* (1, 2, 3) at which the channel ends (0: it does not end here).
checkSinCosOmcInPoint(a, row0, x, wasAlive, off, dieAt) ==
  checkLoop(a, 0, x, off, dieAt,
    [a |-> a, row |-> row0, calls |-> 0, evals |-> [i \in Funcs |-> 0],
     lines |-> <<>>, alive |-> wasAlive])

\* ------------------------------------------------------ the FriCAS session
\* What FriCAS writes, character by character: the characters of its answer
\* lines that the two lexers tell apart.
Chars == {")", " ", "-", "1", "\n"}
\* sizeof(num)
NumSize == 60

NaNResult == [nan |-> TRUE, neg |-> FALSE, digits |-> 0]
Number(neg, digits) == [nan |-> FALSE, neg |-> neg, digits |-> digits]

\* The index of the first c in s, 0 if there is none.
IndexOf(s, c) ==
  IF \E i \in 1..Len(s) : s[i] = c
  THEN CHOOSE i \in 1..Len(s) : s[i] = c /\ \A j \in 1..(i - 1) : s[j] # c
  ELSE 0
Drop(s, n) == SubSeq(s, n + 1, Len(s))
\* The number of leading characters of s that are in S.
LeadingIn(s, S) ==
  IF \E i \in 1..Len(s) : s[i] \notin S
  THEN (CHOOSE i \in 1..Len(s) : s[i] \notin S /\ \A j \in 1..(i - 1) : s[j] \in S) - 1
  ELSE Len(s)

\* What is left of the output after "[^)]*)" and two more characters, or
\* eof when the output ends before that (lines 59-73; fricas.go 55-66).
AfterPrefix(out) ==
  IF IndexOf(out, ")") = 0 \/ Len(out) < IndexOf(out, ")") + 2
  THEN [eof |-> TRUE, rest |-> <<>>]
  ELSE [eof |-> FALSE, rest |-> Drop(out, IndexOf(out, ")") + 2)]

\* fgets(num, sizeof(num), f.out) on the rest of the output: up to NumSize - 1
\* characters, ending after a newline or where the output ends.
fgets(rest) ==
  IF IndexOf(rest, "\n") # 0 /\ IndexOf(rest, "\n") <= NumSize - 1
  THEN SubSeq(rest, 1, IndexOf(rest, "\n"))
  ELSE SubSeq(rest, 1, Min(Len(rest), NumSize - 1))

\* strtod(s, &ss): white space is skipped, then a sign and the longest run of
\* digits are read; without a digit nothing is converted (ss == s).
strtodDigits(neg, t) ==
  IF LeadingIn(t, {"1"}) = 0 THEN NaNResult ELSE Number(neg, LeadingIn(t, {"1"}))
strtodSigned(t) ==
  IF t # <<>> /\ t[1] = "-" THEN strtodDigits(TRUE, Drop(t, 1)) ELSE strtodDigits(FALSE, t)
strtod(s) == strtodSigned(Drop(s, LeadingIn(s, {" ", "\n"})))

\* Lines 81-91.  When num holds only "-", s[0] = '-' overwrites the
\* terminator and strtod reads the bytes of num that fgets left unwritten:
\* garbage stands for them.
cLex(num, garbage) ==
  IF num[1] = "-"
  THEN strtod(<<"-">> \o (IF Len(num) = 1 THEN garbage ELSE Drop(num, 2)))
  ELSE strtod(num)

\* FricasFloatEval: written tells whether fprintf and fflush succeeded, out
\* is what FriCAS's output holds before it ends.
FricasFloatEval(written, out, garbage) ==
  IF ~written THEN NaNResult
  ELSE IF AfterPrefix(out).eof THEN NaNResult
  ELSE IF AfterPrefix(out).rest = <<>> THEN NaNResult
  ELSE cLex(fgets(AfterPrefix(out).rest), garbage)

\* strconv.ParseFloat: the whole string has to be a number.
ParseFloatDigits(neg, t) ==
  IF t # <<>> /\ LeadingIn(t, {"1"}) = Len(t) THEN Number(neg, Len(t)) ELSE NaNResult
ParseFloat(t) ==
  IF t # <<>> /\ t[1] = "-" THEN ParseFloatDigits(TRUE, Drop(t, 1))
  ELSE ParseFloatDigits(FALSE, t)

\* fricas.go 74-84: num ends with the newline.
goLex(num) ==
  IF num[1] = "-"
  THEN ParseFloat(SubSeq(<<"-">> \o Drop(num, 2), 1, Len(num) - 2))
  ELSE ParseFloat(SubSeq(num, 1, Len(num) - 1))

\* FloatEval: the request is written by a goroutine whose errors are only
\* logged; ReadSlice('\n') fails when the output ends before a newline.
FloatEval(written, out) ==
  IF AfterPrefix(out).eof THEN NaNResult
  ELSE IF IndexOf(AfterPrefix(out).rest, "\n") = 0 THEN NaNResult
  ELSE goLex(SubSeq(AfterPrefix(out).rest, 1, IndexOf(AfterPrefix(out).rest, "\n")))

\* ------------------------------------------------------------------- state
VARIABLES
  udX, udY, udRes,      \* ud: the two arguments and the results
  kX, kUB, kRes         \* sncs1cs: the argument, the build and the results

VARIABLES
  pc,                   \* where main is
  fr,                   \* data.fr: the session's two streams
  startup,              \* how FricasFloatNew went
  alive,                \* the channel to FriCAS has not ended
  truthOff, nDiff,      \* the environment: see TruthOffsets, MaxDiverge
  dataI, pt, xCur,      \* data.i, and testRange's i and x
  funcData, limits,     \* data.funcData[ran].a[point][fn] and .limits
  stdout, stderr,       \* what was printed
  dataByFunction,       \* dataByFunction[fn].p[0 .. i-1]
  log,                  \* per point and function: what checkSinCosOmcInPoint did
  scored,               \* the <<fn, ran, point>> that updated a report
  reportRan             \* per function: the range each report was made for

VARIABLES
  written, out,         \* one evaluation: the request got written; FriCAS's output
  cRes, goRes,          \* what FricasFloatEval and FloatEval returned
  goPc,                 \* a Go client: where it is
  goSession,            \* how NewFloatFricas went
  goStderr,             \* the number of messages NewFloatFricas and FloatEval logged
  goEvals               \* the results of the client's FloatEval calls

udVars == <<udX, udY, udRes>>
lexVars == <<written, out, cRes, goRes>>
goVars == <<goPc, goSession, goStderr, goEvals>>
kVars == <<kX, kUB, kRes>>
envVars == <<alive, truthOff, nDiff>>
evalVars == <<dataI, pt, xCur, funcData, limits, log>>
aggVars == <<dataByFunction, scored, reportRan>>
mainVars == <<pc, fr, startup, envVars, evalVars, stdout, stderr, aggVars>>
vars == <<udVars, kVars, mainVars, lexVars, goVars>>

NoRes == [done |-> FALSE, xy |-> 0, yx |-> 0, xx |-> 0]

\* ------------------------------------------------- ud on every pair of inputs
NoTriple == [sin |-> 0, cos |-> 0, omc |-> 0]
NoKRes == [done |-> FALSE, pos |-> NoTriple, neg |-> NoTriple]
DefaultUB == [cast |-> IntMin, inc |-> IntMin]
NoLog == [seen |-> FALSE, x |-> PosZero, evals |-> 0, old |-> PosZero, new |-> PosZero,
          accurate |-> PosZero, lines |-> 0]
NilFricas == [in |-> "nil", out |-> "nil"]
UdIdle == udX = 0 /\ udY = 0 /\ udRes = NoRes
KIdle == kX = 0 /\ kUB = DefaultUB /\ kRes = NoKRes
MainStart(p) ==
  /\ pc = p
  /\ fr = NilFricas
  /\ startup = [failedAt |-> "none", lines |-> 0]
  /\ alive = TRUE
  /\ nDiff = 0
  /\ dataI = 0 /\ pt = 0 /\ xCur = PosZero
  /\ funcData = [ran \in Ranges |-> [point \in Points |-> [fn \in Funcs |-> ZeroVal]]]
  /\ limits = [ran \in Ranges |-> <<PosZero, PosZero>>]
  /\ stdout = <<>> /\ stderr = <<>>
  /\ dataByFunction = [fn \in Funcs |-> <<>>]
  /\ log = [ran \in Ranges |-> [point \in Points |-> [fn \in Funcs |-> NoLog]]]
  /\ scored = {}
  /\ reportRan = [fn \in Funcs |-> <<>>]
MainIdle == MainStart("off") /\ truthOff = 0
NoEval == [done |-> FALSE, r |-> NaNResult]
LexIdle == written = TRUE /\ out = <<>> /\ cRes = NoEval /\ goRes = NoEval
NoSession == [stdinErr |-> FALSE, stdoutErr |-> FALSE, startErr |-> FALSE, banner |-> 0]
GoStart(p) == goPc = p /\ goSession = NoSession /\ goStderr = 0 /\ goEvals = <<>>
GoIdle == GoStart("off")

UdInit ==
  /\ udX \in Floats /\ udY \in Floats /\ udRes = NoRes
  /\ KIdle /\ MainIdle /\ LexIdle /\ GoIdle

UdCall ==
  /\ ~udRes.done
  /\ udRes' = [done |-> TRUE, xy |-> ud(udX, udY), yx |-> ud(udY, udX),
               xx |-> ud(udX, udX)]
  /\ UNCHANGED <<udX, udY, kVars, mainVars, lexVars, goVars>>

UdNext == UdCall

SpecUd == UdInit /\ [][UdNext]_vars

\* ------------------------------------- sncs1cs on every input, at x and at -x
KernelInit ==
  /\ kX \in Floats /\ kUB \in UBChoices /\ kRes = NoKRes
  /\ UdIdle /\ MainIdle /\ LexIdle /\ GoIdle

KernelCall ==
  /\ ~kRes.done
  /\ kRes' = [done |-> TRUE, pos |-> sncs1cs(kX, kUB), neg |-> sncs1cs(FNeg(kX), kUB)]
  /\ UNCHANGED <<kX, kUB, udVars, mainVars, lexVars, goVars>>

KernelNext == KernelCall

SpecKernel == KernelInit /\ [][KernelNext]_vars

\* ------------------------------------------------------------ the test run
StartupFailures == {"pipe", "file_actions", "posix_spawnp", "fdopen", "banner"}

\* FricasFloatNew: the zeroed r on any failure, rr once the banner is read.
\* banner is the number of whole lines FriCAS's output holds before it ends.
FricasFloatNew ==
  /\ pc = "start"
  /\ \E failure \in StartupFailures \cup {"none"},
        banner \in 0..FloatFricasLinesToSkipAtStartup :
       /\ (failure = "banner") = (banner # FloatFricasLinesToSkipAtStartup)
       /\ fr' = IF failure = "none" THEN [in |-> "w", out |-> "r"] ELSE NilFricas
       /\ stderr' = IF failure = "posix_spawnp"
                    THEN Append(stderr, "cfricas: failed to posix_spawnp FriCAS")
                    ELSE IF failure = "banner"
                    THEN Append(stderr, "cfricas: EOF or I/O error")
                    ELSE stderr
       /\ startup' = [failedAt |-> failure,
                      lines |-> IF failure \in {"none", "banner"} THEN banner ELSE 0]
  /\ pc' = "check"
  /\ UNCHANGED <<udVars, kVars, lexVars, goVars, envVars, evalVars, stdout, aggVars>>

\* main, lines 419-422.
mainCheck ==
  /\ pc = "check"
  /\ IF fr.in = "nil" \/ fr.out = "nil"
     THEN /\ stderr' = Append(stderr, "sinCosOmcTester: failed to use fricas")
          /\ pc' = "exit1"
     ELSE /\ stderr' = stderr
          /\ pc' = "eval"
  /\ UNCHANGED <<udVars, kVars, lexVars, goVars, fr, startup, envVars, evalVars, stdout, aggVars>>

\* One iteration of testRange's loop, with the entry to testRange before the
\* first and the return to main's loop after the last.
testRangeStep ==
  /\ pc = "eval"
  /\ dataI < size
  /\ \E dS \in LibmUlps \cup {0}, dC \in LibmUlps \cup {0},
        x \in {IF pt = 0 THEN RangeStart(dataI) ELSE xCur} :
       /\ nDiff + (IF dS # 0 THEN 1 ELSE 0) + (IF dC # 0 THEN 1 ELSE 0) <= MaxDiverge
       /\ nDiff' = nDiff + (IF dS # 0 THEN 1 ELSE 0) + (IF dC # 0 THEN 1 ELSE 0)
       /\ \E a \in {funcValsAt(sncs1csAt[x], dS, dC)} :
          \E dieAt \in 0..(IF alive THEN FuncLimit ELSE 0) :
          \E r \in {checkSinCosOmcInPoint(a, funcData[dataI][pt], x, alive, truthOff, dieAt)} :
            /\ dieAt <= r.calls
            /\ alive' = r.alive
            /\ funcData' = [funcData EXCEPT ![dataI][pt] = r.row]
            /\ stdout' = stdout \o r.lines
            /\ log' = [log EXCEPT ![dataI][pt] =
                         [i \in Funcs |->
                            [seen |-> TRUE, x |-> x, evals |-> r.evals[i],
                             old |-> r.a[i].old, new |-> r.a[i].new,
                             accurate |-> r.row[i].accurate,
                             lines |-> Cardinality({k \in 1..Len(r.lines) : r.lines[k].func = i})]]]
       /\ xCur' = NextAfterUp(x)
       /\ limits' = [limits EXCEPT
                       ![dataI] = <<IF pt = 0 THEN x ELSE @[1],
                                    IF pt = PointsInOneRange - 1 THEN NextAfterUp(x) ELSE @[2]>>]
  /\ pt' = IF pt = PointsInOneRange - 1 THEN 0 ELSE pt + 1
  /\ dataI' = IF pt = PointsInOneRange - 1 THEN dataI + 1 ELSE dataI
  /\ pc' = IF pt = PointsInOneRange - 1 /\ dataI = size - 1 THEN "close" ELSE "eval"
  /\ UNCHANGED <<udVars, kVars, lexVars, goVars, fr, startup, truthOff, stderr, aggVars>>

\* FricasClose and main's message when it fails (lines 426-428): when
\* fclose(f.in) fails, f.out is left as it is.
FricasClose ==
  /\ pc = "close"
  /\ \E failed \in {"none", "in", "out"} :
       /\ stderr' = IF failed # "none"
                    THEN Append(stderr, "sinCosOmcTester: failed to close fricas pipes")
                    ELSE stderr
       /\ fr' = [in |-> "closed", out |-> IF failed = "in" THEN fr.out ELSE "closed"]
  /\ pc' = "aggregate"
  /\ UNCHANGED <<udVars, kVars, lexVars, goVars, startup, envVars, evalVars, stdout, aggVars>>

\* ------------------------------------------------------------- aggregation
\* Lines 465-470: the point's scores enter the range's report e.
updateReport(e, s) ==
  [limits |-> e.limits,
   improvements |-> IF 0 < s.iscor THEN updateMicroReport(e.improvements, s.iscor, s.fscor)
                    ELSE e.improvements,
   worsenings |-> IF 0 < s.iscor THEN e.worsenings
                  ELSE updateMicroReport(e.worsenings, s.iscor, s.fscor),
   mean1 |-> FAdd(e.mean1, s.fscor)]

\* Lines 454-470, p being the slice with the range's report at its end.
scoreInto(p, points, point, s) ==
  [exists |-> TRUE, p |-> [p EXCEPT ![Len(p)] = updateReport(@, s)],
   points |-> points \cup {point}]

\* scorePoint without the skip of a zero iscor (lines 450-452).
scorePoint_all(st, point, s) ==
  scoreInto(IF st.exists THEN st.p ELSE Append(st.p, ZeroReport), st.points, point, s)

\* Lines 448-470 for a point with scores s.
scorePoint(st, point, s) ==
  IF s.iscor = 0 THEN st
  ELSE scoreInto(IF st.exists THEN st.p ELSE Append(st.p, ZeroReport), st.points, point, s)

\* The loop over the points of one range (lines 442-471): in st, p is
\* dataByFunction[fn].p, exists the flag, points the points that updated a
\* report.
RECURSIVE aggregatePoints(_, _, _)
aggregatePoints(a, point, st) ==
  IF point = PointsInOneRange THEN st
  ELSE aggregatePoints(a, point + 1,
         IF isNull(a[point]) THEN st ELSE scorePoint(st, point, scoresOf(a[point])))

\* Lines 472-484.
finalize(e, lim) ==
  [limits |-> <<lim[1], lim[2]>>,
   improvements |-> [e.improvements EXCEPT
      !.mean2 = FSqrt(FDiv(@, IntToFloat(e.improvements.count)))],
   worsenings |-> [e.worsenings EXCEPT
      !.mean2 = FSqrt(FDiv(@, IntToFloat(e.worsenings.count)))],
   mean1 |-> FDiv(e.mean1, IntToFloat(e.improvements.count + e.worsenings.count))]

\* One iteration of the loop over ran (lines 441-484): st is the result of
\* the loop over the range's points.
aggregateRange(data, lims, ran, acc, st) ==
  [p |-> IF st.exists THEN [st.p EXCEPT ![Len(st.p)] = finalize(@, lims[ran])] ELSE st.p,
   points |-> acc.points \cup {<<ran, point>> : point \in st.points},
   rans |-> IF st.exists THEN Append(acc.rans, ran) ELSE acc.rans]

\* The loop over ran (line 440) for the function fn, n being data.i.
RECURSIVE aggregateRanges(_, _, _, _, _, _)
aggregateRanges(data, lims, fn, ran, n, acc) ==
  IF ran >= n THEN acc
  ELSE aggregateRanges(data, lims, fn, ran + 1, n,
         aggregateRange(data, lims, ran, acc,
           aggregatePoints([point \in Points |-> data[ran][point][fn]], 0,
             [exists |-> FALSE, p |-> acc.p, points |-> {}])))

\* The loop over fn (line 439): the results of the loops over ran, in the
\* order of the functions.
RECURSIVE aggregateFuncs(_, _, _, _, _)
aggregateFuncs(data, lims, fn, n, acc) ==
  IF fn = FuncLimit THEN acc
  ELSE aggregateFuncs(data, lims, fn + 1, n,
         Append(acc, aggregateRanges(data, lims, fn, 0, n,
                                     [p |-> <<>>, points |-> {}, rans |-> <<>>])))

\* The rest of main (lines 430-503): dataByFunction[fn].i is 0 and .p not
\* yet allocated before the loop over ran; the reports are printed once all
\* are made.
aggregate ==
  /\ pc = "aggregate"
  /\ \E agg \in {aggregateFuncs(funcData, limits, 0, dataI, <<>>)} :
       /\ dataByFunction' = [fn \in Funcs |-> agg[fn + 1].p]
       /\ scored' = UNION {{<<fn, t[1], t[2]>> : t \in agg[fn + 1].points} : fn \in Funcs}
       /\ reportRan' = [fn \in Funcs |-> agg[fn + 1].rans]
       /\ stdout' = stdout \o <<[s |-> "PointsInOneRange", n |-> PointsInOneRange]>>
                      \o <<[s |-> "reports", p |-> [fn \in Funcs |-> agg[fn + 1].p]]>>
  /\ pc' = "exit0"
  /\ UNCHANGED <<udVars, kVars, lexVars, goVars, fr, startup, envVars, evalVars, stderr>>

Init ==
  /\ MainStart("start") /\ truthOff \in TruthOffsets
  /\ UdIdle /\ KIdle /\ LexIdle /\ GoIdle
Next ==
  \/ FricasFloatNew
  \/ mainCheck
  \/ testRangeStep
  \/ FricasClose
  \/ aggregate
Spec == Init /\ [][Next]_vars

\* ---------------------------------------------------------- one evaluation
\* Every output FriCAS can leave on the channel before it ends, up to
\* MaxChan characters.
RECURSIVE Outputs(_)
Outputs(n) ==
  IF n = 0 THEN {<<>>}
  ELSE Outputs(n - 1) \cup {Append(o, c) : o \in {p \in Outputs(n - 1) : Len(p) = n - 1}, c \in Chars}

EvalInit ==
  /\ written \in BOOLEAN /\ out \in Outputs(MaxChan)
  /\ cRes = NoEval /\ goRes = NoEval
  /\ UdIdle /\ KIdle /\ MainIdle /\ GoIdle

\* The C client evaluates.
CallFricasFloatEval ==
  /\ ~cRes.done
  /\ \E garbage \in {<<>>, <<"1">>, <<"1", "1">>} :
       cRes' = [done |-> TRUE, r |-> FricasFloatEval(written, out, garbage)]
  /\ UNCHANGED <<udVars, kVars, mainVars, written, out, goRes, goVars>>

\* The Go client evaluates.
CallFloatEval ==
  /\ ~goRes.done
  /\ goRes' = [done |-> TRUE, r |-> FloatEval(written, out)]
  /\ UNCHANGED <<udVars, kVars, mainVars, written, out, cRes, goVars>>

EvalNext == CallFricasFloatEval \/ CallFloatEval
SpecEval == EvalInit /\ [][EvalNext]_vars

\* ------------------------------------------------------------ a Go client
\* NewFloatFricas: the pipes or cmd.Start may fail, and FriCAS's output may
\* end after banner lines.  Every error is logged and nothing else; reading
\* through a nil f.out panics.
NewFloatFricas ==
  /\ goPc = "start"
  /\ \E stdinErr \in BOOLEAN, stdoutErr \in BOOLEAN, startErr \in BOOLEAN,
        banner \in 0..FloatFricasLinesToSkipAtStartup :
       /\ stdoutErr \/ startErr => banner = 0
       /\ goSession' = [stdinErr |-> stdinErr, stdoutErr |-> stdoutErr,
                        startErr |-> startErr, banner |-> banner]
       /\ goStderr' = (IF stdinErr THEN 1 ELSE 0) + (IF stdoutErr THEN 1 ELSE 0)
                      + (IF startErr THEN 1 ELSE 0)
                      + (IF stdoutErr THEN 0 ELSE FloatFricasLinesToSkipAtStartup - banner)
       /\ goPc' = IF stdoutErr THEN "panic" ELSE "ready"
  /\ goEvals' = goEvals
  /\ UNCHANGED <<udVars, kVars, mainVars, lexVars>>

\* The session NewFloatFricas leaves behind works.
GoSessionWorks ==
  /\ ~goSession.stdinErr /\ ~goSession.stdoutErr /\ ~goSession.startErr
  /\ goSession.banner = FloatFricasLinesToSkipAtStartup

\* The client calls FloatEval: nothing NewFloatFricas returned keeps it from
\* that.  Flushing through a nil f.in panics; without FriCAS the write fails,
\* the read fails and the result is NaN.
ClientFloatEval ==
  /\ goPc = "ready"
  /\ Len(goEvals) < MaxEvals
  /\ IF goSession.stdinErr
     THEN /\ goPc' = "panic"
          /\ UNCHANGED <<goEvals, goStderr>>
     ELSE IF GoSessionWorks
     THEN /\ \E o \in {<<")", " ", " ", "1", "\n">>, <<")", " ", " ", "-", " ", "1", "\n">>, <<>>} :
               goEvals' = Append(goEvals, FloatEval(TRUE, o))
          /\ UNCHANGED <<goPc, goStderr>>
     ELSE /\ goEvals' = Append(goEvals, FloatEval(FALSE, <<>>))
          /\ goStderr' = goStderr + 3
          /\ goPc' = goPc
  /\ goSession' = goSession
  /\ UNCHANGED <<udVars, kVars, mainVars, lexVars>>

\* Close
ClientClose ==
  /\ goPc = "ready"
  /\ goPc' = IF goSession.stdinErr THEN "panic" ELSE "closed"
  /\ UNCHANGED <<udVars, kVars, mainVars, lexVars, goSession, goStderr, goEvals>>

GoInit == GoStart("start") /\ UdIdle /\ KIdle /\ MainIdle /\ LexIdle
GoNext == NewFloatFricas \/ ClientFloatEval \/ ClientClose
SpecGo == GoInit /\ [][GoNext]_vars

\* ------------------------------------------------------------------ claims
NonNaNPair == udRes.done /\ ~IsNaN(udX) /\ ~IsNaN(udY)

\* C3, as stated: ud is anti-symmetric, ud(x, y) = -ud(y, x) for all non-NaN
\* x and y.
UdAntiSymmetric == NonNaNPair => udRes.xy = -udRes.yx

\* C3, as the code has it: ud is symmetric, ud(x, y) = ud(y, x) for all
\* non-NaN x and y, and for two values of the same sign it is the absolute
\* difference of their bit patterns, never negative.
UdSymmetric ==
  NonNaNPair =>
    /\ udRes.xy = udRes.yx
    /\ SignOf(udX) = SignOf(udY) =>
         /\ udRes.xy >= 0
         /\ udRes.xy = Max(Mag(udX), Mag(udY)) - Min(Mag(udX), Mag(udY))

\* Two positive values, y the larger: ud(x, y) is positive.
UdSymmetricWitness ==
  /\ NonNaNPair
  /\ SignOf(udX) = 0 /\ SignOf(udY) = 0
  /\ FLess(udX, udY)
  /\ udRes.xy > 0
  /\ udRes.yx = udRes.xy

\* C4: ud(x, x) = 0 for every non-NaN x, ud(+0, -0) = ud(-0, +0) = 0, and
\* for inputs of opposite sign ud is the sum of the two magnitudes' bit
\* patterns.
UdZeroAndSum ==
  NonNaNPair =>
    /\ udRes.xx = 0
    /\ IsZero(udX) /\ IsZero(udY) => udRes.xy = 0 /\ udRes.yx = 0
    /\ SignOf(udX) # SignOf(udY) => udRes.xy = Mag(udX) + Mag(udY)

\* The parts of C4 the code keeps: ud(x, x) = 0, the zeros, and the sum of
\* the magnitudes as long as it fits int64.
UdZeroAndSumInRange ==
  NonNaNPair =>
    /\ udRes.xx = 0
    /\ IsZero(udX) /\ IsZero(udY) => udRes.xy = 0 /\ udRes.yx = 0
    /\ SignOf(udX) # SignOf(udY) /\ Mag(udX) + Mag(udY) <= Int64Max =>
         udRes.xy = Mag(udX) + Mag(udY)

\* C9: sncs1cs is odd in sin and even in cos and omc: for every finite x,
\* with the zeros, sncs1cs(-x).sin = -sncs1cs(x).sin, sncs1cs(-x).cos =
\* sncs1cs(x).cos and sncs1cs(-x).omc = sncs1cs(x).omc.
KernelOddEven ==
  kRes.done /\ IsFinite(kX) =>
    /\ kRes.neg.sin = FNeg(kRes.pos.sin)
    /\ kRes.neg.cos = kRes.pos.cos
    /\ kRes.neg.omc = kRes.pos.omc

\* A finite nonzero x whose sine is not zero: the two sines differ.
KernelOddEvenWitness ==
  /\ kRes.done /\ IsFinite(kX) /\ ~IsZero(kX)
  /\ IsFinite(kRes.pos.sin) /\ ~IsZero(kRes.pos.sin)
  /\ kRes.neg.sin # kRes.pos.sin
  /\ kRes.neg.sin = FNeg(kRes.pos.sin)

\* ---- the test run
Slots == Ranges \X Points \X Funcs
Seen(t) == log[t[1]][t[2]][t[3]].seen
LogOf(t) == log[t[1]][t[2]][t[3]]
ValOf(t) == funcData[t[1]][t[2]][t[3]]
IsScored(t) == <<t[3], t[1], t[2]>> \in scored
Aggregated == pc = "exit0"
\* The diagnostic lines printed for the function t[3] at the point of slot t.
DiagLines(t) ==
  {k \in 1..Len(stdout) :
     /\ "func" \in DOMAIN stdout[k]
     /\ stdout[k].func = t[3]
     /\ stdout[k].x = LogOf(t).x}

\* C1: if old equals new at a point for a function, FricasFloatEval is never
\* called for that point and function, no diagnostic line is printed for it,
\* and it enters no report (no count, no mean).
EqualNeverEvaluated ==
  /\ \A t \in Slots :
       Seen(t) /\ FEq(LogOf(t).old, LogOf(t).new) =>
         /\ LogOf(t).evals = 0
         /\ LogOf(t).lines = 0
         /\ DiagLines(t) = {}
         /\ ~IsScored(t)
  /\ \A k \in 1..Len(stdout) :
       "func" \in DOMAIN stdout[k] => ~FEq(stdout[k].old, stdout[k].new)

\* A finished run with a point where old equals new for a function, in a
\* range that has a report for this function from another point.
EqualNeverEvaluatedWitness ==
  /\ pc = "exit0"
  /\ \E t \in Slots, u \in Slots :
       /\ FEq(LogOf(t).old, LogOf(t).new)
       /\ u[1] = t[1] /\ u[3] = t[3] /\ u[2] # t[2]
       /\ IsScored(u)
       /\ t[1] \in {reportRan[t[3]][k] : k \in 1..Len(reportRan[t[3]])}

\* C2: over a whole run FricasFloatEval is called at most once per point and
\* function, and only when ud(old, new) is not zero; a point's record is
\* never revisited, so there is no later call either.
AtMostOneEvaluation ==
  /\ [](\A t \in Slots :
          /\ LogOf(t).evals <= 1
          /\ LogOf(t).evals >= 1 => ud(LogOf(t).old, LogOf(t).new) # 0
          /\ ~Seen(t) => LogOf(t).evals = 0)
  /\ [][\A t \in Slots : Seen(t) => log'[t[1]][t[2]][t[3]] = LogOf(t)]_vars

\* A finished run with evaluated and unevaluated functions, one evaluation
\* having given NaN.
AtMostOneEvaluationWitness ==
  /\ pc = "exit0"
  /\ \E t \in Slots, u \in Slots, v \in Slots :
       /\ LogOf(t).evals = 1 /\ ~IsNaN(LogOf(t).accurate)
       /\ LogOf(u).evals = 1 /\ IsNaN(LogOf(u).accurate)
       /\ Seen(v) /\ LogOf(v).evals = 0

\* ---- the reports
IscorOf(ran, point, fn) == iscorOf(funcData[ran][point][fn])
Better(fn, ran) == {point \in Points : IscorOf(ran, point, fn) > 0}
Worse(fn, ran) == {point \in Points : IscorOf(ran, point, fn) < 0}
MaxOf(S) == IF S = {} THEN 0 ELSE CHOOSE m \in S : \A n \in S : n <= m
MinOf(S) == IF S = {} THEN 0 ELSE CHOOSE m \in S : \A n \in S : m <= n
\* The sum of the fscor of the points of a range with a nonzero iscor, added
\* in the order of the points.
RECURSIVE SumFscor(_, _, _)
SumFscor(fn, ran, n) ==
  IF n = 0 THEN PosZero
  ELSE IF IscorOf(ran, n - 1, fn) = 0 THEN SumFscor(fn, ran, n - 1)
  ELSE FAdd(SumFscor(fn, ran, n - 1), scoresOf(funcData[ran][n - 1][fn]).fscor)
ReportsOf(fn) == 1..Len(dataByFunction[fn])

ScoredRanges(fn) == {ran \in Ranges : \E point \in Points : IscorOf(ran, point, fn) # 0}

NaNIsSkipped ==
  \A t \in Slots :
    LogOf(t).evals >= 1 /\ IsNaN(LogOf(t).accurate) =>
      /\ ValOf(t).accurate = LogOf(t).accurate
      /\ ud(ValOf(t).old, ValOf(t).accurate) = Int64Max
      /\ ud(ValOf(t).new, ValOf(t).accurate) = Int64Max
      /\ scoresOf(ValOf(t)).iscor = 0 /\ iscorOf(ValOf(t)) = 0
      /\ quiteInteresting(ValOf(t)) = "nil"
      /\ LogOf(t).lines = 0
      /\ ~IsScored(t)
      /\ pc \in {"eval", "close", "aggregate", "exit0"}

\* A finished run in which FriCAS gave NaN at a point before the last one,
\* after a point that was scored.
NaNIsSkippedWitness ==
  /\ pc = "exit0"
  /\ \E t \in Slots, u \in Slots, v \in Slots :
       /\ LogOf(t).evals = 1 /\ IsNaN(LogOf(t).accurate)
       /\ t[1] < size - 1
       /\ Seen(v) /\ v[1] > t[1]
       /\ IsScored(u) /\ u[1] <= t[1]

\* ---- the FriCAS session
\* The C implementation's share of C7: when FricasFloatNew fails, main prints
\* its message and exits before any point is evaluated or anything printed.
StartupFailureAborts ==
  startup.failedAt # "none" =>
    /\ pc \in {"check", "exit1"}
    /\ fr = NilFricas
    /\ stdout = <<>>
    /\ \A t \in Slots : ~Seen(t)
    /\ pc = "exit1" => stderr # <<>> /\ stderr[Len(stderr)] = "sinCosOmcTester: failed to use fricas"

GoStartFailed ==
  \/ goSession.stdinErr \/ goSession.stdoutErr \/ goSession.startErr
  \/ goSession.banner # FloatFricasLinesToSkipAtStartup

\* C7: if FriCAS cannot be started or its 17 banner lines cannot be read, the
\* constructor reports the failure and the run is aborted with a message
\* before any evaluation is requested.
StartupFailureIsFatal ==
  goPc \notin {"off", "start"} /\ GoStartFailed => goPc = "panic" /\ goEvals = <<>>

\* The output up to the newline of the answer line, for an output that has
\* a ')' plus two characters plus a line.
HasLine(o) == ~AfterPrefix(o).eof /\ IndexOf(AfterPrefix(o).rest, "\n") # 0
LineOf(o) == SubSeq(AfterPrefix(o).rest, 1, IndexOf(AfterPrefix(o).rest, "\n") - 1)
IsDigits(t) == t # <<>> /\ \A i \in 1..Len(t) : t[i] = "1"
IsNumber(t) == IsDigits(t)
IsMinusNumber(t) == Len(t) >= 3 /\ t[1] = "-" /\ t[2] = " " /\ IsDigits(Drop(t, 2))
IsLiteral(t) == IsNumber(t) \/ IsMinusNumber(t) \/ (t # <<>> /\ t[1] = "-" /\ IsDigits(Drop(t, 1)))

\* What C8 asks of the result r of an evaluation.
NaNOrNumber(r) ==
  /\ ~written \/ ~HasLine(out) \/ ~IsLiteral(LineOf(out)) => r.nan
  /\ written /\ HasLine(out) /\ IsNumber(LineOf(out)) => r = Number(FALSE, Len(LineOf(out)))
  /\ written /\ HasLine(out) /\ IsMinusNumber(LineOf(out)) =>
       r = Number(TRUE, Len(LineOf(out)) - 2)

\* C8: FricasFloatEval and FloatEval return NaN whenever the request cannot
\* be written, the output ends before a ')' plus two characters plus a line
\* have been read, or the remainder is not a decimal literal; for
\* "(<index>)  <number>" and "(<index>)  - <number>" they return the number
\* with its sign.
EvalNaNOrNumber ==
  /\ cRes.done => NaNOrNumber(cRes.r)
  /\ goRes.done => NaNOrNumber(goRes.r)

\* The part of C8 both implementations keep: a well-formed answer to a
\* written request gives the number with its sign; FricasFloatEval gives NaN
\* when the request cannot be written, and FloatEval gives NaN when the line
\* is missing or cut short, or is neither digits nor '-', one character and
\* digits.
EvalWellFormedAnswer ==
  /\ cRes.done /\ written /\ HasLine(out) /\ IsNumber(LineOf(out)) =>
       cRes.r = Number(FALSE, Len(LineOf(out)))
  /\ cRes.done /\ written /\ HasLine(out) /\ IsMinusNumber(LineOf(out)) =>
       cRes.r = Number(TRUE, Len(LineOf(out)) - 2)
  /\ cRes.done /\ ~written => cRes.r.nan
  /\ goRes.done /\ HasLine(out) /\ IsNumber(LineOf(out)) =>
       goRes.r = Number(FALSE, Len(LineOf(out)))
  /\ goRes.done /\ HasLine(out) /\ IsMinusNumber(LineOf(out)) =>
       goRes.r = Number(TRUE, Len(LineOf(out)) - 2)
  /\ goRes.done /\ ~HasLine(out) => goRes.r.nan
  /\ goRes.done /\ HasLine(out) /\ ~IsNumber(LineOf(out))
       /\ ~(Len(LineOf(out)) >= 3 /\ LineOf(out)[1] = "-" /\ IsDigits(Drop(LineOf(out), 2)))
       => goRes.r.nan

\* The clause of C8 about an answer cut short by the end of the output, for
\* FricasFloatEval alone: fgets returns the part of the line that was read,
\* so this does not hold.
CutShortIsNaN ==
  cRes.done /\ written /\ ~HasLine(out) => cRes.r.nan

\* ---- the divisors of the statistics
\* The reports of a finished run: fn and the index of the report.
AllReports == {<<fn, k>> \in Funcs \X (1..size) : k <= Len(dataByFunction[fn])}
ReportAt(r) == dataByFunction[r[1]][r[2]]

\* C11: the scoring statistics never divide by zero: when a range's report
\* is finalized, improvements.count, worsenings.count and their sum, the
\* three divisors, are nonzero, and no fscor whose divisor ud(new, accurate)
\* is zero is added to a mean.
ScoringNeverDividesByZero ==
  Aggregated =>
    /\ \A r \in AllReports :
         /\ ReportAt(r).improvements.count # 0
         /\ ReportAt(r).worsenings.count # 0
         /\ ReportAt(r).improvements.count + ReportAt(r).worsenings.count # 0
    /\ \A t \in Slots : IsScored(t) => ud(ValOf(t).new, ValOf(t).accurate) # 0

\* The part of C11 that the program keeps: the divisor of the combined mean
\* is at least 1, a report being made only for a range with a scored point.
CombinedDivisorNonzero ==
  Aggregated =>
    \A r \in AllReports :
      ReportAt(r).improvements.count + ReportAt(r).worsenings.count >= 1

\* What the zero divisors lead to: the quadratic mean of a MicroReport
\* without points is sqrt(0/0), a NaN, and a scored point whose new result
\* equals the accurate one has an infinite fscor, which is then the range's
\* greatest improvement and its improvements' quadratic mean.
ZeroDivisorsShow ==
  Aggregated =>
    /\ \A r \in AllReports :
         /\ ReportAt(r).improvements.count = 0 => IsNaN(ReportAt(r).improvements.mean2)
         /\ ReportAt(r).worsenings.count = 0 => IsNaN(ReportAt(r).worsenings.mean2)
    /\ \A t \in Slots :
         IsScored(t) /\ ud(ValOf(t).new, ValOf(t).accurate) = 0 =>
           /\ scoresOf(ValOf(t)).fscor = PosInf
           /\ \E r \in AllReports :
                /\ r[1] = t[3] /\ reportRan[r[1]][r[2]] = t[1]
                /\ ReportAt(r).improvements.maxScor = PosInf
                /\ ReportAt(r).improvements.mean2 = PosInf

\* ---- the points of a range
\* testRange has returned for the range ran.
RangeDone(ran) == ran < dataI
PointAt(ran, point) == log[ran][point][sinIndex].x

\* C12: the points of a range are x and its next PointsInOneRange - 1
\* floating-point successors in increasing order, and the range's limits
\* are the first and the last of these points.
LimitsAreFirstAndLastPoint ==
  \A ran \in Ranges :
    RangeDone(ran) =>
      /\ \A point \in Points : \A fn \in Funcs : log[ran][point][fn].seen
      /\ PointAt(ran, 0) = RangeStart(ran)
      /\ \A point \in Points \ {0} :
           /\ PointAt(ran, point) = NextAfterUp(PointAt(ran, point - 1))
           /\ FLess(PointAt(ran, point - 1), PointAt(ran, point))
      /\ limits[ran][1] = PointAt(ran, 0)
      /\ limits[ran][2] = PointAt(ran, PointsInOneRange - 1)

\* What testRange does: the points are as C12 says and limits[0] is the
\* first one, but limits[1] is the successor of the last point, a number at
\* which nothing was evaluated.
LimitsAreFirstAndPastLast ==
  \A ran \in Ranges :
    RangeDone(ran) =>
      /\ \A point \in Points : \A fn \in Funcs : log[ran][point][fn].seen
      /\ PointAt(ran, 0) = RangeStart(ran)
      /\ \A point \in Points \ {0} :
           /\ PointAt(ran, point) = NextAfterUp(PointAt(ran, point - 1))
           /\ FLess(PointAt(ran, point - 1), PointAt(ran, point))
      /\ limits[ran][1] = PointAt(ran, 0)
      /\ limits[ran][2] = NextAfterUp(PointAt(ran, PointsInOneRange - 1))
      /\ FLess(PointAt(ran, PointsInOneRange - 1), limits[ran][2])
      /\ \A point \in Points : PointAt(ran, point) # limits[ran][2]

====
